---- MODULE Spec2Model ----
(***************************************************************************)
(* Invitation lifecycle of the collaboration API                           *)
(* (src/app/api/collaborate/invitations/route.ts).                         *)
(*                                                                         *)
(* Every route handler is an async function: between two awaited store    *)
(* calls other handlers may run.  A handler is therefore modelled as a     *)
(* sequence of steps, one per awaited store call that reads or writes      *)
(* mutable rows; the synchronous code that follows a call (the checks and  *)
(* early returns on its result) belongs to the same step.  A request is    *)
(* admitted by the step that performs its first store call.                *)
(*                                                                         *)
(* The store is a set of plain tables and stored procedures (rpc).  The    *)
(* store may refuse a write to a table, and a read whose error the handler *)
(* tests (userError); a handler learns of a refusal only where it tests    *)
(* the error of the call.  The call of a procedure that writes may be      *)
(* refused as well; the specifications differ in whether they explore that *)
(* (CreateWith, ResolveWith).  The source holds no table definition: no    *)
(* uniqueness constraint is known, an insert of a second row for the same  *)
(* key is a write like any other.                                          *)
(***************************************************************************)
EXTENDS Naturals, Integers, FiniteSets, Sequences, Bags, TLC

(* ------------------------------ bounds ------------------------------- *)

\* Invitation ids the store hands out in a run.
MaxInv == 2

\* team_members rows of one (team, user) pair; an insert of a further row
\* is not explored.
MaxRows == 2

\* Placeholder profiles the member-add endpoint may create in a run.
MaxNewUsers == 1

(* ------------------------- program constants ------------------------- *)

\* "max 2 teams per day"
MaxTeamsPerDay == 2

\* Accounts that exist at the start: 1 owns every team.
Accounts == {1, 2, 3}

\* The account's e-mail address.
EmailOf(u) == <<"mail", u>>

\* An address with no account at the start, an address that fails the
\* format test, and the empty address.
UnknownEmail == <<"mail", 0>>
BadEmail == <<"bad", 0>>
NoEmail == <<"none", 0>>

AllTeams == {"t1", "t2", "t3"}
NoTeam == ""

teamOwner == [t \in AllTeams |-> 1]

AssignableRoles == {"viewer", "editor", "admin"}

Rank(r) == CASE r = "owner" -> 4
             [] r = "admin" -> 3
             [] r = "editor" -> 2
             [] r = "viewer" -> 1
             [] OTHER -> 0

Procs == {"p1", "p2"}

NoInv == [status |-> "none"]
Idle == [kind |-> "idle"]

VARIABLES
  invitations,   \* team_invitations: id -> row, or NoInv
  nextId,        \* next invitation id of the store
  members,       \* team_members: bag of rows [team_id, user_id, role]
  profiles,      \* user_profiles: set of rows [id, email]
  events,        \* create_notification calls made: [type, target, team_id]
  notifications, \* notifications: rows the dispatcher created
  pushed,        \* push attempts the dispatcher made
  preferences,   \* notification_preferences: user -> category -> enabled
  rate,          \* invitation rate state of today: account -> set of teams
  chat,          \* chat_messages: team -> sequence of rows
  req,           \* each handler's position and locals, or its response
  okLog,         \* history: id -> the resolve actions answered with success
  issued,        \* history: the <<inviter, team>> pairs of persisted invitations
  bellNotifications,     \* NotificationBell: notifications (state)
  unreadCount,           \* NotificationBell: unreadCount (state)
  bellPreferences,       \* NotificationBell: preferences (state)
  isUpdatingPreferences, \* NotificationBell: isUpdatingPreferences (state)
  calls,                 \* NotificationBell: api calls awaited, with their closures
  mounted,           \* TeamChat: the component is mounted
  team,              \* TeamChat: team.id (prop)
  user,              \* TeamChat: user?.id (useSupabaseAuth)
  socket,            \* TeamChat: the socket of useSocket, or NoSocket
  messages,          \* TeamChat: messages (state)
  isSending,         \* TeamChat: isSending (state)
  isTyping,          \* TeamChat: isTyping (state); no entry reads as false
  typingTimeoutsRef, \* TeamChat: typingTimeoutsRef.current: sender -> timer id
  timers,            \* timeouts set and neither fired nor cleared
  nextTimer,         \* the id the next setTimeout returns
  listeners,         \* handlers subscribed with socket.on, by their effect
  emitted,           \* the last two JOIN_TEAM / LEAVE_TEAM emits
  rooms,             \* Hub: the <<socket, team>> pairs joined
  loads,             \* calls of loadMessages awaited
  post,              \* the call of handleSendMessage awaited, or NoPost
  inbox,             \* socket -> events relayed and not yet handled
  lastTrue           \* history: sender -> timer of its last isTyping=true

serverVars == <<invitations, nextId, members, profiles, events, notifications,
                pushed, preferences, rate, chat, req, okLog, issued>>

bellVars == <<bellNotifications, unreadCount, bellPreferences,
              isUpdatingPreferences, calls>>

\* The tables and handlers of the invitation routes.
inviteVars == <<invitations, nextId, members, profiles, events, notifications,
                pushed, preferences, rate, req, okLog, issued>>

chatVars == <<mounted, team, user, socket, messages, isSending, isTyping,
              typingTimeoutsRef, timers, nextTimer, listeners, emitted, rooms,
              loads, post, inbox, lastTrue>>

clientVars == <<bellVars, chatVars>>

vars == <<serverVars, clientVars>>

InvIds == 1..MaxInv

(* ------------------------------ store -------------------------------- *)

\* .single(): the row when exactly one row matches, else no data.
Single(n) == n = 1

MemberRow(t, u, r) == [team_id |-> t, user_id |-> u, role |-> r]

MemberCount(t, u) ==
  LET rows == {m \in BagToSet(members) : m.team_id = t /\ m.user_id = u}
      sub == [m \in rows |-> members[m]]
  IN  BagCardinality(sub)

PendingIds(t, u) ==
  {i \in InvIds : /\ invitations[i] # NoInv
                  /\ invitations[i].team_id = t
                  /\ invitations[i].invitee_id = u
                  /\ invitations[i].status = "pending"}

ProfilesByEmail(e) == {p \in profiles : p.email = e}

\* The store carries a call out or refuses it.
StoreOutcomes == {"ok", "error"}

Refused(o) == o = "error"

\* roleOf(teamId, userId): the roles the membership rows give the user.
RolesOf(t, u) ==
  {m.role : m \in {x \in BagToSet(members) : x.team_id = t /\ x.user_id = u}}

\* can_assign_role(team_uuid, user_uuid, target_role)
can_assign_role(t, u, r) ==
  /\ t \in AllTeams
  /\ \/ teamOwner[t] = u
     \/ \E own \in RolesOf(t, u) : Rank(own) > Rank(r) /\ Rank(own) >= Rank("admin")

\* check_invitation_limit(user_uuid, team_uuid)
check_invitation_limit(u, t) ==
  t \in rate[u] \/ Cardinality(rate[u]) < MaxTeamsPerDay

\* update_invitation_limit(user_uuid, team_uuid)
update_invitation_limit(u, t) == [rate EXCEPT ![u] = @ \cup {t}]

\* create_notification(target_user_id, notification_type, ...)
create_notification(target, type, t) ==
  events \cup {[type |-> type, target |-> target, team_id |-> t]}

\* The preference categories the invitation events fall under.
Categories == {"team_invitations", "member_added"}

CategoryOf(type) ==
  IF type = "member_added" THEN "member_added" ELSE "team_invitations"

\* Defaults: every category enabled.
DefaultPreferences == [u \in Accounts |-> [c \in Categories |-> TRUE]]

\* dispatch(recipientId, kind, ...): the rows (and push attempts) of one
\* call: none when the recipient's gate for the kind's category is false.
dispatch(target, type, t) ==
  IF target \in DOMAIN preferences /\ ~preferences[target][CategoryOf(type)]
    THEN {}
  ELSE {[type |-> type, target |-> target, team_id |-> t]}

Response(op, code, err) == [kind |-> "done", op |-> op, code |-> code, err |-> err]

(* ------------- NotificationBell (src/unnamed/part_000:543) ------------ *)
(* The component's state and its async functions.  A function that awaits  *)
(* an api call is two steps: the call, which keeps what the function read  *)
(* before the await, and the return of the call, which carries out the     *)
(* rest of the function.  The api answers a call or fails it (apiCall      *)
(* throws).  The user and the session are present throughout.              *)

\* Notification ids the api may list.
MaxNotifs == 3

\* Api calls of the user's actions awaited at once.
MaxCalls == 2

\* Loads of one kind awaited at once.
MaxLoads == 1

NotifIds == 1..MaxNotifs

\* The notifications that carry an action_url.
Linked == {3}

PrefKeys ==
  {"team_invitations", "member_added", "new_messages", "message_mentions",
   "document_shared", "role_changes", "email_notifications",
   "push_notifications"}

\* Lines 548-557: the initial state of preferences.
InitialPreferences == [k \in PrefKeys |-> k # "email_notifications"]

LoadNotifications == [op |-> "loadNotifications"]
LoadPreferences == [op |-> "loadPreferences"]

\* The component after its mount: the initial state of lines 544-559, the
\* effect of lines 647-652 has called both loads.
InitBell ==
  /\ bellNotifications = {}
  /\ unreadCount = 0
  /\ bellPreferences = InitialPreferences
  /\ isUpdatingPreferences = FALSE
  /\ calls = SetToBag({LoadNotifications, LoadPreferences})

Unread(list) == {n \in list : ~n.is_read}

\* Math.max(0, prev - 1)
Decrement(n) == IF n > 0 THEN n - 1 ELSE 0

\* { ...prev, ...updates }
Merge(prev, updates) ==
  [k \in DOMAIN prev \cup DOMAIN updates |->
     IF k \in DOMAIN updates THEN updates[k] ELSE prev[k]]

Await(c) == calls (+) SetToBag({c})

Resume(c) == calls (-) SetToBag({c})

Awaited(op) == {c \in BagToSet(calls) : c.op = op}

\* The calls of the user's actions that are awaited.
UserCalls ==
  BagCardinality(calls) - CopiesIn(LoadNotifications, calls)
    - CopiesIn(LoadPreferences, calls)

\* Lines 619, 647-652: loadNotifications depends on notifications.length;
\* when the length changes the effect runs again and calls both loads.
Effect(old, new, bag) ==
  IF Cardinality(old) = Cardinality(new) THEN bag
  ELSE bag (+) SetToBag({LoadNotifications, LoadPreferences})

\* A further load of a kind is explored while fewer than MaxLoads are awaited.
LoadsLeft(old, new, bag) ==
  Cardinality(old) # Cardinality(new)
    => /\ CopiesIn(LoadNotifications, bag) < MaxLoads
       /\ CopiesIn(LoadPreferences, bag) < MaxLoads

\* The lists the api may answer a load with: any notifications, read or not.
Lists ==
  {l \in SUBSET [id : NotifIds, is_read : BOOLEAN] :
     \A a, b \in l : a.id = b.id => a = b}

\* The preferences the api may answer a load with.
StoredPreferences ==
  {InitialPreferences, [k \in PrefKeys |-> k = "email_notifications"]}

\* Lines 594-619: the list call returns; data.unreadCount is the number of
\* unread notifications of the list.
loadNotifications(o, l) ==
  /\ BagIn(LoadNotifications, calls)
  /\ IF Refused(o)
       THEN /\ calls' = Resume(LoadNotifications)
            /\ UNCHANGED <<bellNotifications, unreadCount>>
     ELSE /\ LoadsLeft(bellNotifications, l, Resume(LoadNotifications))
          /\ bellNotifications' = l
          /\ unreadCount' = Cardinality(Unread(l))
          /\ calls' = Effect(bellNotifications, l, Resume(LoadNotifications))
  /\ UNCHANGED <<bellPreferences, isUpdatingPreferences>>
  /\ UNCHANGED <<serverVars, chatVars>>

\* Lines 622-644: the preferences call returns.
loadPreferences(o, m) ==
  /\ BagIn(LoadPreferences, calls)
  /\ bellPreferences' = IF Refused(o) THEN bellPreferences ELSE m
  /\ calls' = Resume(LoadPreferences)
  /\ UNCHANGED <<bellNotifications, unreadCount, isUpdatingPreferences>>
  /\ UNCHANGED <<serverVars, chatVars>>

\* window.location.href = action_url: the page is left, the component of the
\* next page mounts.
Navigate ==
  /\ bellNotifications' = {}
  /\ unreadCount' = 0
  /\ bellPreferences' = InitialPreferences
  /\ isUpdatingPreferences' = FALSE
  /\ calls' = SetToBag({LoadNotifications, LoadPreferences})

\* Lines 791-801, 655-663: a click on a listed notification: unread, it
\* calls markAsRead; read, it navigates when it carries an action_url.
handleNotificationClick(n) ==
  /\ n \in bellNotifications
  /\ IF ~n.is_read
       THEN /\ UserCalls < MaxCalls
            /\ calls' = Await([op |-> "markAsRead", id |-> n.id])
            /\ UNCHANGED <<bellNotifications, unreadCount, bellPreferences,
                           isUpdatingPreferences>>
     ELSE /\ n.id \in Linked
          /\ Navigate
  /\ UNCHANGED <<serverVars, chatVars>>

\* Lines 664-682, 797-800: the call of markAsRead returns; then the click
\* handler navigates when the notification carries an action_url.
markAsRead(c, o) ==
  /\ c \in Awaited("markAsRead")
  /\ IF c.id \in Linked
       THEN Navigate
     ELSE /\ calls' = Resume(c)
          /\ IF Refused(o)
               THEN UNCHANGED <<bellNotifications, unreadCount>>
             ELSE /\ bellNotifications' =
                       {IF n.id = c.id THEN [n EXCEPT !.is_read = TRUE] ELSE n :
                          n \in bellNotifications}
                  /\ unreadCount' = Decrement(unreadCount)
          /\ UNCHANGED <<bellPreferences, isUpdatingPreferences>>
  /\ UNCHANGED <<serverVars, chatVars>>

\* Lines 685-692, 942-950: the button is shown while unreadCount > 0.
markAllAsReadCall ==
  /\ unreadCount > 0
  /\ UserCalls < MaxCalls
  /\ calls' = Await([op |-> "markAllAsRead"])
  /\ UNCHANGED <<bellNotifications, unreadCount, bellPreferences,
                 isUpdatingPreferences>>
  /\ UNCHANGED <<serverVars, chatVars>>

\* Lines 694-711.
markAllAsRead(c, o) ==
  /\ c \in Awaited("markAllAsRead")
  /\ calls' = Resume(c)
  /\ IF Refused(o)
       THEN UNCHANGED <<bellNotifications, unreadCount>>
     ELSE /\ bellNotifications' =
               {[n EXCEPT !.is_read = TRUE] : n \in bellNotifications}
          /\ unreadCount' = 0
  /\ UNCHANGED <<bellPreferences, isUpdatingPreferences>>
  /\ UNCHANGED <<serverVars, chatVars>>

\* Lines 715-719, 722: the call; `notifications` of line 722 is the list of
\* the render the click was made in.
deleteNotificationCall(n) ==
  /\ n \in bellNotifications
  /\ UserCalls < MaxCalls
  /\ calls' = Await([op |-> "deleteNotification", id |-> n.id,
                     is_read |-> n.is_read])
  /\ UNCHANGED <<bellNotifications, unreadCount, bellPreferences,
                 isUpdatingPreferences>>
  /\ UNCHANGED <<serverVars, chatVars>>

\* Lines 721-736.
deleteNotification(c, o) ==
  /\ c \in Awaited("deleteNotification")
  /\ IF Refused(o)
       THEN /\ calls' = Resume(c)
            /\ UNCHANGED <<bellNotifications, unreadCount>>
     ELSE LET kept == {n \in bellNotifications : n.id # c.id} IN
          /\ LoadsLeft(bellNotifications, kept, Resume(c))
          /\ bellNotifications' = kept
          /\ unreadCount' = IF ~c.is_read THEN Decrement(unreadCount)
                            ELSE unreadCount
          /\ calls' = Effect(bellNotifications, kept, Resume(c))
  /\ UNCHANGED <<bellPreferences, isUpdatingPreferences>>
  /\ UNCHANGED <<serverVars, chatVars>>

\* Lines 739-743, 1005-1011: the item is shown while some notification is
\* read.
clearAllReadCall ==
  /\ \E n \in bellNotifications : n.is_read
  /\ UserCalls < MaxCalls
  /\ calls' = Await([op |-> "clearAllRead"])
  /\ UNCHANGED <<bellNotifications, unreadCount, bellPreferences,
                 isUpdatingPreferences>>
  /\ UNCHANGED <<serverVars, chatVars>>

\* Lines 745-759.
clearAllRead(c, o) ==
  /\ c \in Awaited("clearAllRead")
  /\ IF Refused(o)
       THEN /\ calls' = Resume(c)
            /\ UNCHANGED bellNotifications
     ELSE /\ LoadsLeft(bellNotifications, Unread(bellNotifications), Resume(c))
          /\ bellNotifications' = Unread(bellNotifications)
          /\ calls' = Effect(bellNotifications, Unread(bellNotifications),
                             Resume(c))
  /\ UNCHANGED <<unreadCount, bellPreferences, isUpdatingPreferences>>
  /\ UNCHANGED <<serverVars, chatVars>>

\* Lines 763-770, 896: the checkboxes are disabled while an update is
\* awaited.
updatePreferencesCall(updates) ==
  /\ ~isUpdatingPreferences
  /\ isUpdatingPreferences' = TRUE
  /\ calls' = Await([op |-> "updatePreferences", updates |-> updates])
  /\ UNCHANGED <<bellNotifications, unreadCount, bellPreferences>>
  /\ UNCHANGED <<serverVars, chatVars>>

updatePreferences_Replace(c, o) ==
  /\ c \in Awaited("updatePreferences")
  /\ calls' = Resume(c)
  /\ bellPreferences' = IF Refused(o) THEN bellPreferences
                        ELSE Merge(InitialPreferences, c.updates)
  /\ isUpdatingPreferences' = FALSE
  /\ UNCHANGED <<bellNotifications, unreadCount>>
  /\ UNCHANGED <<serverVars, chatVars>>

\* Lines 772-787.
updatePreferences(c, o) ==
  /\ c \in Awaited("updatePreferences")
  /\ calls' = Resume(c)
  /\ bellPreferences' = IF Refused(o) THEN bellPreferences
                        ELSE Merge(bellPreferences, c.updates)
  /\ isUpdatingPreferences' = FALSE
  /\ UNCHANGED <<bellNotifications, unreadCount>>
  /\ UNCHANGED <<serverVars, chatVars>>

(* ------------------- TeamChat (src/unnamed/part_000:51) --------------- *)
(* The component's state, its two effects, its socket handlers and its     *)
(* async functions.  A render that changes a dependency of an effect, the  *)
(* cleanup of the effect that is live and the effect of the new render are *)
(* one step.  Socket events and timeouts run one at a time.  The messages  *)
(* api and the hub that relays to the rooms are not part of the client:    *)
(* they persist a message, then relay it to the sockets of the room, each  *)
(* socket receiving its events in the order of the relay.                  *)

\* Messages posted in a run.
MaxMsgs == 2

\* Timeouts set in a run.
MaxTimers == 3

\* Calls of loadMessages awaited at once.
MaxChatLoads == 2

\* Events relayed to a socket and not yet handled, for the member events.
MaxInbox == 1

\* limit=50
HistoryLimit == 50

\* The account that is logged in, and no account.
Me == 1
NoUser == 0

Sockets == {1, 2}
NoSocket == 0

\* The teams the component is shown for.
ChatTeams == {"t1", "t2"}

\* The rooms the page has joined on the same socket outside this component.
Elsewhere == {"t2"}

\* The user and socket the hooks of lines 52-53 may give.
Auths == {<<NoUser, NoSocket>>, <<Me, NoSocket>>} \cup ({Me} \X Sockets)

NoPost == [state |-> "none"]

propVars == <<mounted, team, user, socket>>

typingVars == <<isTyping, typingTimeoutsRef, timers, nextTimer, lastTrue>>

effectVars == <<listeners, emitted, rooms>>

\* Lines 56-62: the state of a component that is not mounted or was just
\* mounted.
InitChat ==
  /\ mounted = FALSE
  /\ team = NoTeam
  /\ user = Me
  /\ socket = 1
  /\ messages = <<>>
  /\ isSending = FALSE
  /\ isTyping = [u \in Accounts |-> FALSE]
  /\ typingTimeoutsRef = [u \in Accounts |-> 0]
  /\ timers = {}
  /\ nextTimer = 1
  /\ listeners = {}
  /\ emitted = <<>>
  /\ rooms = {}
  /\ loads = EmptyBag
  /\ post = NoPost
  /\ inbox = [s \in Sockets |-> <<>>]
  /\ lastTrue = [u \in Accounts |-> 0]

LastTwo(seq) ==
  IF Len(seq) <= 2 THEN seq ELSE SubSeq(seq, Len(seq) - 1, Len(seq))

Persisted == Len(chat["t1"]) + Len(chat["t2"]) + Len(chat["t3"])

\* listRecentMessages(teamId, limit), as loadMessages formats it (lines
\* 93-102).
listRecentMessages(t) ==
  LET n == Len(chat[t])
      from == IF n > HistoryLimit THEN n - HistoryLimit + 1 ELSE 1
  IN  [k \in 1..(n + 1 - from) |->
         [id |-> chat[t][from + k - 1].id,
          senderId |-> chat[t][from + k - 1].user_id, teamId |-> t]]

\* The sockets the hub relays an event of team t to.
Targets(t) ==
  {s \in Sockets : <<s, t>> \in rooms \/ (t \in Elsewhere /\ s = socket)}

Relay(t, e) ==
  [s \in Sockets |-> IF s \in Targets(t) THEN Append(inbox[s], e) ELSE inbox[s]]

\* postMessage(teamId, senderId, content, type): append, then relay.
postMessage(t, sender) ==
  /\ chat' = [chat EXCEPT ![t] = Append(@, [id |-> Persisted + 1,
                                            user_id |-> sender,
                                            type |-> "text"])]
  /\ inbox' = Relay(t, [event |-> "NEW_MESSAGE", id |-> Persisted + 1,
                        teamId |-> t, senderId |-> sender])

\* Line 90: loadMessages calls the api and awaits.
loadMessagesCall(t) ==
  loads (+) SetToBag({[team |-> t, state |-> "sent", data |-> <<>>]})

SocketEffect_NoLeave(t, u, s) ==
  LET setup == s # NoSocket /\ t # NoTeam
      join == IF setup
                THEN <<[event |-> "JOIN_TEAM", teamId |-> t, userId |-> u,
                        socket |-> s]>>
              ELSE <<>>
  IN  /\ emitted' = LastTwo(emitted \o join)
      /\ rooms' = rooms \cup (IF setup THEN {<<s, t>>} ELSE {})
      /\ listeners' = IF setup THEN {[socket |-> s, team |-> t, user |-> u]}
                      ELSE {}
      /\ timers' = IF listeners = {} THEN timers
                   ELSE {k \in timers :
                           \A x \in Accounts : typingTimeoutsRef[x] # k.id}

\* Lines 126-196: the socket effect for team t, user u and socket s: first
\* the cleanup of the effect that is live (LEAVE_TEAM, socket.off, every
\* timeout of the ref cleared), then, with a socket and a team, JOIN_TEAM
\* and socket.on.
SocketEffect(t, u, s) ==
  LET setup == s # NoSocket /\ t # NoTeam
      leave == IF listeners = {} THEN <<>>
               ELSE LET o == CHOOSE x \in listeners : TRUE
                    IN  <<[event |-> "LEAVE_TEAM", teamId |-> o.team,
                           userId |-> o.user, socket |-> o.socket]>>
      join == IF setup
                THEN <<[event |-> "JOIN_TEAM", teamId |-> t, userId |-> u,
                        socket |-> s]>>
              ELSE <<>>
  IN  /\ emitted' = LastTwo(emitted \o leave \o join)
      /\ rooms' = (rooms \ {<<o.socket, o.team>> : o \in listeners})
                    \cup (IF setup THEN {<<s, t>>} ELSE {})
      /\ listeners' = IF setup THEN {[socket |-> s, team |-> t, user |-> u]}
                      ELSE {}
      /\ timers' = IF listeners = {} THEN timers
                   ELSE {k \in timers :
                           \A x \in Accounts : typingTimeoutsRef[x] # k.id}

\* The component mounts for team t: the effect of lines 119-123 calls
\* loadMessages, the socket effect runs.
Mount(t) ==
  /\ ~mounted
  /\ mounted' = TRUE
  /\ team' = t
  /\ loads' = loadMessagesCall(t)
  /\ SocketEffect(t, user, socket)
  /\ UNCHANGED <<user, socket, messages, isSending, isTyping,
                 typingTimeoutsRef, nextTimer, lastTrue, post, inbox, chat>>
  /\ UNCHANGED <<inviteVars, bellVars>>

\* The component unmounts: the cleanup of the socket effect; the state is
\* gone, a call that returns later changes nothing.
Unmount ==
  /\ mounted
  /\ mounted' = FALSE
  /\ team' = NoTeam
  /\ SocketEffect(NoTeam, user, socket)
  /\ messages' = <<>>
  /\ isSending' = FALSE
  /\ isTyping' = [u \in Accounts |-> FALSE]
  /\ typingTimeoutsRef' = [u \in Accounts |-> 0]
  /\ lastTrue' = [u \in Accounts |-> 0]
  /\ loads' = EmptyBag
  /\ UNCHANGED <<user, socket, nextTimer, post, inbox, chat>>
  /\ UNCHANGED <<inviteVars, bellVars>>

\* The team prop changes: both effects run again (lines 123, 196).
TeamChange(t) ==
  /\ mounted /\ t # team
  /\ BagCardinality(loads) < MaxChatLoads
  /\ team' = t
  /\ loads' = loadMessagesCall(t)
  /\ SocketEffect(t, user, socket)
  /\ UNCHANGED <<mounted, user, socket, messages, isSending, isTyping,
                 typingTimeoutsRef, nextTimer, lastTrue, post, inbox, chat>>
  /\ UNCHANGED <<inviteVars, bellVars>>

\* The user or the socket changes: the socket effect runs again (line 196).
AuthChange(u, s) ==
  /\ mounted /\ <<u, s>> # <<user, socket>>
  /\ user' = u
  /\ socket' = s
  /\ SocketEffect(team, u, s)
  /\ UNCHANGED <<mounted, team, messages, isSending, isTyping,
                 typingTimeoutsRef, nextTimer, lastTrue, loads, post, inbox,
                 chat>>
  /\ UNCHANGED <<inviteVars, bellVars>>

\* GET /api/collaborate/messages: the api answers a call of loadMessages
\* with the recent messages of the team, or fails.
GetMessages(r, o) ==
  /\ BagIn(r, loads) /\ r.state = "sent"
  /\ loads' = (loads (-) SetToBag({r}))
                (+) SetToBag({IF Refused(o) THEN [r EXCEPT !.state = "failed"]
                              ELSE [r EXCEPT !.state = "ok",
                                             !.data = listRecentMessages(r.team)]})
  /\ UNCHANGED <<propVars, typingVars, effectVars, messages, isSending, post,
                 inbox, chat>>
  /\ UNCHANGED <<inviteVars, bellVars>>

\* Lines 92-115: the call of loadMessages returns: the answer replaces the
\* list.
loadMessages(r) ==
  /\ BagIn(r, loads) /\ r.state # "sent"
  /\ loads' = loads (-) SetToBag({r})
  /\ messages' = IF r.state = "ok" THEN r.data ELSE messages
  /\ UNCHANGED <<propVars, typingVars, effectVars, isSending, post, inbox,
                 chat>>
  /\ UNCHANGED <<inviteVars, bellVars>>

handleNewMessage_AnyTeam(l, data) ==
  /\ messages' = Append(messages, [id |-> data.id, senderId |-> data.senderId,
                                   teamId |-> data.teamId])
  /\ IF typingTimeoutsRef[data.senderId] # 0
       THEN /\ timers' = {k \in timers : k.id # typingTimeoutsRef[data.senderId]}
            /\ isTyping' = [isTyping EXCEPT ![data.senderId] = FALSE]
     ELSE UNCHANGED <<timers, isTyping>>
  /\ UNCHANGED <<propVars, typingTimeoutsRef, nextTimer, lastTrue, effectVars,
                 isSending, loads, post>>

\* Lines 129-149, the handler subscribed by the effect l.
handleNewMessage(l, data) ==
  /\ IF data.teamId = l.team
       THEN /\ messages' = Append(messages, [id |-> data.id,
                                             senderId |-> data.senderId,
                                             teamId |-> data.teamId])
            /\ IF typingTimeoutsRef[data.senderId] # 0
                 THEN /\ timers' = {k \in timers :
                                      k.id # typingTimeoutsRef[data.senderId]}
                      /\ isTyping' = [isTyping EXCEPT ![data.senderId] = FALSE]
               ELSE UNCHANGED <<timers, isTyping>>
     ELSE UNCHANGED <<messages, timers, isTyping>>
  /\ UNCHANGED <<propVars, typingTimeoutsRef, nextTimer, lastTrue, effectVars,
                 isSending, loads, post>>

handleTyping_NoClear(l, data) ==
  /\ IF data.teamId = l.team /\ data.userId # l.user
       THEN /\ isTyping' = [isTyping EXCEPT ![data.userId] = data.isTyping]
            /\ IF data.isTyping
                 THEN /\ nextTimer <= MaxTimers
                      /\ timers' = timers \cup {[id |-> nextTimer,
                                                 userId |-> data.userId]}
                      /\ typingTimeoutsRef' =
                           [typingTimeoutsRef EXCEPT ![data.userId] = nextTimer]
                      /\ lastTrue' = [lastTrue EXCEPT ![data.userId] = nextTimer]
                      /\ nextTimer' = nextTimer + 1
               ELSE UNCHANGED <<timers, typingTimeoutsRef, lastTrue, nextTimer>>
     ELSE UNCHANGED typingVars
  /\ UNCHANGED <<propVars, effectVars, messages, isSending, loads, post>>

\* Lines 151-167, the handler subscribed by the effect l.
handleTyping(l, data) ==
  /\ IF data.teamId = l.team /\ data.userId # l.user
       THEN LET cleared == {k \in timers :
                              k.id # typingTimeoutsRef[data.userId]}
            IN
            /\ isTyping' = [isTyping EXCEPT ![data.userId] = data.isTyping]
            /\ IF data.isTyping
                 THEN /\ nextTimer <= MaxTimers
                      /\ timers' = cleared \cup {[id |-> nextTimer,
                                                  userId |-> data.userId]}
                      /\ typingTimeoutsRef' =
                           [typingTimeoutsRef EXCEPT ![data.userId] = nextTimer]
                      /\ lastTrue' = [lastTrue EXCEPT ![data.userId] = nextTimer]
                      /\ nextTimer' = nextTimer + 1
               ELSE /\ timers' = cleared
                    /\ UNCHANGED <<typingTimeoutsRef, lastTrue, nextTimer>>
     ELSE UNCHANGED typingVars
  /\ UNCHANGED <<propVars, effectVars, messages, isSending, loads, post>>

\* Lines 169-172, the handler subscribed by the effect l.
handleMemberUpdate(l) ==
  /\ BagCardinality(loads) < MaxChatLoads
  /\ loads' = loadMessagesCall(l.team)
  /\ UNCHANGED <<propVars, typingVars, effectVars, messages, isSending, post>>

\* Lines 162-164: a timeout fires.
TimerFires(k) ==
  /\ k \in timers
  /\ timers' = timers \ {k}
  /\ isTyping' = [isTyping EXCEPT ![k.userId] = FALSE]
  /\ UNCHANGED <<propVars, typingTimeoutsRef, nextTimer, lastTrue, effectVars,
                 messages, isSending, loads, post, inbox, chat>>
  /\ UNCHANGED <<inviteVars, bellVars>>

\* The socket hands the next event to the handlers subscribed on it; with
\* none subscribed the event is dropped.
Deliver(s) ==
  /\ inbox[s] # <<>>
  /\ inbox' = [inbox EXCEPT ![s] = Tail(@)]
  /\ LET e == Head(inbox[s])
         on == {l \in listeners : l.socket = s}
     IN  IF on = {}
           THEN UNCHANGED <<propVars, typingVars, effectVars, messages,
                            isSending, loads, post>>
         ELSE \E l \in on :
                IF e.event = "NEW_MESSAGE" THEN handleNewMessage(l, e)
                ELSE handleMemberUpdate(l)
  /\ UNCHANGED chat
  /\ UNCHANGED <<inviteVars, bellVars>>

\* A TYPING event reaches the handler subscribed.
Typing(data) ==
  /\ \E l \in listeners : handleTyping(l, data)
  /\ UNCHANGED <<inbox, chat>>
  /\ UNCHANGED <<inviteVars, bellVars>>

\* Another client posts to team t.
PostMessage(t, sender) ==
  /\ Persisted < MaxMsgs
  /\ postMessage(t, sender)
  /\ UNCHANGED <<propVars, typingVars, effectVars, messages, isSending, loads,
                 post>>
  /\ UNCHANGED <<inviteVars, bellVars>>

\* The hub relays 'member-joined' of team t.
MemberJoined(t) ==
  /\ \A s \in Targets(t) : Len(inbox[s]) < MaxInbox
  /\ Targets(t) # {}
  /\ inbox' = Relay(t, [event |-> "member-joined", teamId |-> t])
  /\ UNCHANGED <<propVars, typingVars, effectVars, messages, isSending, loads,
                 post, chat>>
  /\ UNCHANGED <<inviteVars, bellVars>>

\* Lines 204-228: the form is submitted with a message typed; the input is
\* disabled while isSending (line 478).  The handler calls the api and
\* awaits.
handleSendMessageCall ==
  /\ mounted /\ user # NoUser /\ team # NoTeam
  /\ ~isSending /\ post = NoPost
  /\ isSending' = TRUE
  /\ post' = [state |-> "sent", team |-> team, user |-> user]
  /\ UNCHANGED <<propVars, typingVars, effectVars, messages, loads, inbox,
                 chat>>
  /\ UNCHANGED <<inviteVars, bellVars>>

\* POST /api/collaborate/messages: the api posts the message, or fails.
PostOwnMessage(o) ==
  /\ post.state = "sent"
  /\ IF Refused(o)
       THEN /\ post' = [post EXCEPT !.state = "failed"]
            /\ UNCHANGED <<chat, inbox>>
     ELSE /\ Persisted < MaxMsgs
          /\ post' = [post EXCEPT !.state = "ok"]
          /\ postMessage(post.team, post.user)
  /\ UNCHANGED <<propVars, typingVars, effectVars, messages, isSending, loads>>
  /\ UNCHANGED <<inviteVars, bellVars>>

handleSendMessage_Optimistic ==
  /\ post.state \in {"ok", "failed"}
  /\ post' = NoPost
  /\ isSending' = FALSE
  /\ messages' = IF post.state = "ok" /\ mounted
                   THEN Append(messages, [id |-> Persisted,
                                          senderId |-> post.user,
                                          teamId |-> post.team])
                 ELSE messages
  /\ UNCHANGED <<propVars, typingVars, effectVars, loads, inbox, chat>>
  /\ UNCHANGED <<inviteVars, bellVars>>

\* Lines 230-243: the call returns: the input is cleared on success, a
\* toast is shown on failure.
handleSendMessage ==
  /\ post.state \in {"ok", "failed"}
  /\ post' = NoPost
  /\ isSending' = FALSE
  /\ UNCHANGED <<propVars, typingVars, effectVars, messages, loads, inbox,
                 chat>>
  /\ UNCHANGED <<inviteVars, bellVars>>

Init ==
  /\ invitations = [i \in InvIds |-> NoInv]
  /\ nextId = 1
  /\ members = SetToBag({MemberRow(t, teamOwner[t], "owner") : t \in AllTeams})
  /\ profiles = {[id |-> u, email |-> EmailOf(u)] : u \in Accounts}
  /\ events = {}
  /\ notifications = {}
  /\ pushed = {}
  /\ preferences = DefaultPreferences
  /\ rate = [u \in Accounts |-> {}]
  /\ chat = [t \in AllTeams |-> <<>>]
  /\ req = [p \in Procs |-> Idle]
  /\ okLog = [i \in InvIds |-> <<>>]
  /\ issued = {}
  /\ InitBell
  /\ InitChat

\* A request is admitted on the first free handler slot.
Free(p) ==
  /\ req[p] = Idle
  /\ p = "p2" => req["p1"] # Idle

\* Invitation ids not yet handed out nor reserved by a create in flight.
IdsLeft ==
  MaxInv + 1 - nextId - Cardinality({q \in Procs : req[q].kind = "POST" /\ req[q].id = 0})

\* A handler returns: its slot holds the response until it is sent.
Return(p, op, code, err) == req' = [req EXCEPT ![p] = Response(op, code, err)]

\* A handler goes on to its next store call.
Goto(p, r) == req' = [req EXCEPT ![p] = r]

WellFormed(e) == e[1] = "mail"

(* ------------------- GET /api/collaborate/invitations ----------------- *)

ListTypes == {"sent", "received", "all"}

\* Lines 33-45: the filters of the query, on the stored columns.
Listed(u, type, status) ==
  {i \in InvIds :
     /\ invitations[i] # NoInv
     /\ CASE type = "sent" -> invitations[i].inviter_id = u
          [] type = "received" -> invitations[i].invitee_id = u
          [] OTHER -> u \in {invitations[i].inviter_id, invitations[i].invitee_id}
     /\ status # "all" => invitations[i].status = status}

\* Lines 9-60: one query; the response carries the rows as stored.
GetList(p, u, type, status, o) ==
  /\ Free(p)
  /\ IF Refused(o)
       THEN Return(p, "GET", 500, "fetch_failed")
     ELSE Goto(p, [kind |-> "done", op |-> "GET", code |-> 200, err |-> "none",
                   status |-> status,
                   invitations |-> {[id |-> i, status |-> invitations[i].status] :
                                      i \in Listed(u, type, status)}])
  /\ UNCHANGED <<invitations, nextId, members, profiles, events,
                 notifications, pushed, preferences, rate, chat, okLog,
                 issued>>
  /\ UNCHANGED clientVars

(* ------------------- POST /api/collaborate/invitations ---------------- *)

PostAdmit_NoAuthority(p, u, t, e, r) ==
  /\ Free(p)
  /\ IdsLeft > 0
  /\ IF t = NoTeam \/ e = NoEmail
       THEN Return(p, "POST", 400, "required")
     ELSE IF r \notin AssignableRoles
       THEN Return(p, "POST", 400, "invalid_role")
     ELSE IF ~WellFormed(e)
       THEN Return(p, "POST", 400, "invalid_email")
     ELSE Goto(p, [kind |-> "POST", pc |-> "find_user", user |-> u,
                   teamId |-> t, inviteeEmail |-> e, role |-> r,
                   invitee |-> 0, id |-> 0])
  /\ UNCHANGED <<invitations, nextId, members, profiles, events,
                 notifications, pushed, preferences, rate, chat, okLog,
                 issued>>
  /\ UNCHANGED clientVars

\* Lines 73-122: the body's checks, then can_assign_role.
PostAdmit(p, u, t, e, r) ==
  /\ Free(p)
  /\ IdsLeft > 0
  /\ IF t = NoTeam \/ e = NoEmail
       THEN Return(p, "POST", 400, "required")
     ELSE IF r \notin AssignableRoles
       THEN Return(p, "POST", 400, "invalid_role")
     ELSE IF ~WellFormed(e)
       THEN Return(p, "POST", 400, "invalid_email")
     ELSE IF ~can_assign_role(t, u, r)
       THEN Return(p, "POST", 403, "cannot_assign")
     ELSE Goto(p, [kind |-> "POST", pc |-> "find_user", user |-> u,
                   teamId |-> t, inviteeEmail |-> e, role |-> r,
                   invitee |-> 0, id |-> 0])
  /\ UNCHANGED <<invitations, nextId, members, profiles, events,
                 notifications, pushed, preferences, rate, chat, okLog,
                 issued>>
  /\ UNCHANGED clientVars

\* Lines 124-144: find the invitee's profile by e-mail.
PostFindUser(p, o) ==
  /\ req[p].kind = "POST" /\ req[p].pc = "find_user"
  /\ LET found == ProfilesByEmail(req[p].inviteeEmail) IN
     IF Refused(o)
       THEN Return(p, "POST", 500, "database")
     ELSE IF ~Single(Cardinality(found))
       THEN Return(p, "POST", 404, "user_not_found")
     ELSE Goto(p, [req[p] EXCEPT !.pc = "member_check",
                                 !.invitee = (CHOOSE x \in found : TRUE).id])
  /\ UNCHANGED <<invitations, nextId, members, profiles, events,
                 notifications, pushed, preferences, rate, chat, okLog,
                 issued>>
  /\ UNCHANGED clientVars

\* Lines 146-159: is the invitee already a member of the team?
PostMemberCheck(p) ==
  /\ req[p].kind = "POST" /\ req[p].pc = "member_check"
  /\ IF Single(MemberCount(req[p].teamId, req[p].invitee))
       THEN Return(p, "POST", 400, "already_member")
     ELSE Goto(p, [req[p] EXCEPT !.pc = "pending_check"])
  /\ UNCHANGED <<invitations, nextId, members, profiles, events,
                 notifications, pushed, preferences, rate, chat, okLog,
                 issued>>
  /\ UNCHANGED clientVars

\* Lines 161-175: is there a pending invitation for the pair?
PostPendingCheck(p) ==
  /\ req[p].kind = "POST" /\ req[p].pc = "pending_check"
  /\ IF Single(Cardinality(PendingIds(req[p].teamId, req[p].invitee)))
       THEN Return(p, "POST", 400, "duplicate_pending")
     ELSE Goto(p, [req[p] EXCEPT !.pc = "limit_check"])
  /\ UNCHANGED <<invitations, nextId, members, profiles, events,
                 notifications, pushed, preferences, rate, chat, okLog,
                 issued>>
  /\ UNCHANGED clientVars

\* Lines 177-189: check_invitation_limit.
PostLimitCheck(p) ==
  /\ req[p].kind = "POST" /\ req[p].pc = "limit_check"
  /\ IF ~check_invitation_limit(req[p].user, req[p].teamId)
       THEN Return(p, "POST", 429, "rate_limited")
     ELSE Goto(p, [req[p] EXCEPT !.pc = "insert"])
  /\ UNCHANGED <<invitations, nextId, members, profiles, events,
                 notifications, pushed, preferences, rate, chat, okLog,
                 issued>>
  /\ UNCHANGED clientVars

NewInvitation(l) ==
  [team_id |-> l.teamId, inviter_id |-> l.user, invitee_id |-> l.invitee,
   role |-> l.role, status |-> "pending", overdue |-> FALSE]

\* Lines 191-230: read the team (teams are never written), insert the row.
PostInsert(p, o) ==
  /\ req[p].kind = "POST" /\ req[p].pc = "insert"
  /\ IF req[p].teamId \notin AllTeams
       THEN /\ Return(p, "POST", 404, "team_not_found")
            /\ UNCHANGED <<invitations, nextId, issued>>
     ELSE IF Refused(o)
       THEN /\ Return(p, "POST", 500, "insert_failed")
            /\ UNCHANGED <<invitations, nextId, issued>>
     ELSE /\ invitations' = [invitations EXCEPT ![nextId] = NewInvitation(req[p])]
          /\ nextId' = nextId + 1
          /\ issued' = issued \cup {<<req[p].user, req[p].teamId>>}
          /\ Goto(p, [req[p] EXCEPT !.pc = "limit_update", !.id = nextId])
  /\ UNCHANGED <<members, profiles, events, notifications, pushed,
                 preferences, rate, chat, okLog>>
  /\ UNCHANGED clientVars

\* Lines 232-236: update_invitation_limit.  The result of the call is not
\* read.
PostLimitUpdate(p, o) ==
  /\ req[p].kind = "POST" /\ req[p].pc = "limit_update"
  /\ rate' = IF Refused(o) THEN rate
             ELSE update_invitation_limit(req[p].user, req[p].teamId)
  /\ Goto(p, [req[p] EXCEPT !.pc = "notify"])
  /\ UNCHANGED <<invitations, nextId, members, profiles, events,
                 notifications, pushed, preferences, chat, okLog, issued>>
  /\ UNCHANGED clientVars

PostNotify_Ungated(p, o) ==
  /\ req[p].kind = "POST" /\ req[p].pc = "notify"
  /\ events' = IF Refused(o) THEN events
               ELSE create_notification(req[p].invitee, "team_invitation",
                                        req[p].teamId)
  /\ LET made == IF Refused(o) THEN {}
                 ELSE {[type |-> "team_invitation", target |-> req[p].invitee,
                        team_id |-> req[p].teamId]}
     IN  /\ notifications' = notifications \cup made
         /\ pushed' = pushed \cup made
  /\ Return(p, "POST", 200, "none")
  /\ UNCHANGED <<invitations, nextId, members, profiles, preferences, rate,
                 chat, okLog, issued>>
  /\ UNCHANGED clientVars

\* Lines 238-260: create_notification for the invitee, then success.  The
\* result of the call is not read.
PostNotify(p, o) ==
  /\ req[p].kind = "POST" /\ req[p].pc = "notify"
  /\ events' = IF Refused(o) THEN events
               ELSE create_notification(req[p].invitee, "team_invitation",
                                        req[p].teamId)
  /\ LET made == IF Refused(o) THEN {}
                 ELSE dispatch(req[p].invitee, "team_invitation", req[p].teamId)
     IN  /\ notifications' = notifications \cup made
         /\ pushed' = pushed \cup made
  /\ Return(p, "POST", 200, "none")
  /\ UNCHANGED <<invitations, nextId, members, profiles, preferences, rate,
                 chat, okLog, issued>>
  /\ UNCHANGED clientVars

(* ------------------- PUT /api/collaborate/invitations ----------------- *)

ResolveActions == {"accept", "reject", "cancel"}

\* The row as the handler read it (line 300); status and expiry are tested
\* at once, the other columns are used by the later steps.
Snapshot(row) ==
  [team_id |-> row.team_id, inviter_id |-> row.inviter_id,
   invitee_id |-> row.invitee_id, role |-> row.role]

\* Line 341: new Date(invitation.expires_at) < new Date()
IsOverdue(row) == row.overdue

PutVerdict_NoPendingCheck(u, i, a) ==
  IF i = 0 THEN <<400, "required">>
  ELSE IF a \notin ResolveActions THEN <<400, "invalid_action">>
  ELSE IF invitations[i] = NoInv THEN <<404, "not_found">>
  ELSE IF a = "cancel" /\ invitations[i].inviter_id # u THEN <<403, "only_inviter">>
  ELSE IF a \in {"accept", "reject"} /\ invitations[i].invitee_id # u
    THEN <<403, "only_invitee">>
  ELSE <<0, "go">>

PutVerdict_InviterMayAccept(u, i, a) ==
  IF i = 0 THEN <<400, "required">>
  ELSE IF a \notin ResolveActions THEN <<400, "invalid_action">>
  ELSE IF invitations[i] = NoInv THEN <<404, "not_found">>
  ELSE IF a = "cancel" /\ invitations[i].inviter_id # u THEN <<403, "only_inviter">>
  ELSE IF a \in {"accept", "reject"}
          /\ u \notin {invitations[i].invitee_id, invitations[i].inviter_id}
    THEN <<403, "only_invitee">>
  ELSE IF invitations[i].status # "pending" THEN <<400, invitations[i].status>>
  ELSE <<0, "go">>

\* Lines 277-338: the early returns of the handler, in the order of the
\* code, as <<status code, error>>; <<0, "go">> when none is taken.  id 0
\* stands for a missing id.
PutVerdict(u, i, a) ==
  IF i = 0 THEN <<400, "required">>
  ELSE IF a \notin ResolveActions THEN <<400, "invalid_action">>
  ELSE IF invitations[i] = NoInv THEN <<404, "not_found">>
  ELSE IF a = "cancel" /\ invitations[i].inviter_id # u THEN <<403, "only_inviter">>
  ELSE IF a \in {"accept", "reject"} /\ invitations[i].invitee_id # u
    THEN <<403, "only_invitee">>
  ELSE IF invitations[i].status # "pending" THEN <<400, invitations[i].status>>
  ELSE <<0, "go">>

\* Lines 340-357, 393, 409: the store call that follows the checks.
PutBranch(row, a) ==
  IF IsOverdue(row) THEN "expire"
  ELSE IF a = "accept" THEN "member_insert"
  ELSE "notify"

\* Lines 273-355: the body's checks, the read of the invitation, the
\* permission, pending and expiry checks.
PutAdmit(p, u, i, a) ==
  /\ Free(p)
  /\ LET v == PutVerdict(u, i, a) IN
     IF v[1] # 0
       THEN Return(p, a, v[1], v[2])
     ELSE Goto(p, [kind |-> "PUT", pc |-> PutBranch(invitations[i], a),
                   user |-> u, action |-> a, id |-> i,
                   invitation |-> Snapshot(invitations[i]), fx |-> {}])
  /\ UNCHANGED <<invitations, nextId, members, profiles, events,
                 notifications, pushed, preferences, rate, chat, okLog,
                 issued>>
  /\ UNCHANGED clientVars

\* update(...).eq('id', id): the row with that id, whatever its status; no
\* row, no change (and no error).
UpdateStatus(i, s) ==
  IF invitations[i] = NoInv THEN invitations
  ELSE [invitations EXCEPT ![i].status = s]

\* Lines 340-351: the invitation is overdue: write 'expired', return 400.
\* The result of the write is not read.
PutExpire(p, o) ==
  /\ req[p].kind = "PUT" /\ req[p].pc = "expire"
  /\ invitations' = IF Refused(o) THEN invitations
                    ELSE UpdateStatus(req[p].id, "expired")
  /\ Return(p, req[p].action, 400, "expired")
  /\ UNCHANGED <<nextId, members, profiles, events, notifications, pushed,
                 preferences, rate, chat, okLog, issued>>
  /\ UNCHANGED clientVars

\* Lines 357-376: accept inserts the team_members row.
PutMemberInsert(p, o) ==
  /\ req[p].kind = "PUT" /\ req[p].pc = "member_insert"
  /\ MemberCount(req[p].invitation.team_id, req[p].invitation.invitee_id) < MaxRows
  /\ IF Refused(o)
       THEN /\ Return(p, req[p].action, 500, "member_failed")
            /\ members' = members
     ELSE /\ members' = members (+) SetToBag({MemberRow(req[p].invitation.team_id,
                                                       req[p].invitation.invitee_id,
                                                       req[p].invitation.role)})
          /\ Goto(p, [req[p] EXCEPT !.pc = "notify", !.fx = @ \cup {"member"}])
  /\ UNCHANGED <<invitations, nextId, profiles, events, notifications,
                 pushed, preferences, rate, chat, okLog, issued>>
  /\ UNCHANGED clientVars

NotificationType(a) ==
  CASE a = "accept" -> "member_added"
    [] a = "reject" -> "invitation_rejected"
    [] a = "cancel" -> "invitation_cancelled"

NotificationTarget(a, inv) ==
  IF a = "cancel" THEN inv.invitee_id ELSE inv.inviter_id

\* Lines 378-423: create_notification for the other party.  The result of
\* the call is not read.
PutNotify(p, o) ==
  /\ req[p].kind = "PUT" /\ req[p].pc = "notify"
  /\ LET made == IF Refused(o) THEN {}
                 ELSE dispatch(NotificationTarget(req[p].action, req[p].invitation),
                               NotificationType(req[p].action),
                               req[p].invitation.team_id)
     IN  /\ notifications' = notifications \cup made
         /\ pushed' = pushed \cup made
  /\ IF Refused(o)
       THEN /\ events' = events
            /\ Goto(p, [req[p] EXCEPT !.pc = "update"])
     ELSE /\ events' = create_notification(
                          NotificationTarget(req[p].action, req[p].invitation),
                          NotificationType(req[p].action),
                          req[p].invitation.team_id)
          /\ Goto(p, [req[p] EXCEPT !.pc = "update", !.fx = @ \cup {"event"}])
  /\ UNCHANGED <<invitations, nextId, members, profiles, preferences, rate,
                 chat, okLog, issued>>
  /\ UNCHANGED clientVars

NewStatus(a) ==
  CASE a = "accept" -> "accepted"
    [] a = "reject" -> "rejected"
    [] a = "cancel" -> "cancelled"

\* Lines 425-444: write the new status, return success.
PutUpdate(p, o) ==
  /\ req[p].kind = "PUT" /\ req[p].pc = "update"
  /\ IF Refused(o)
       THEN /\ Return(p, req[p].action, 500, "update_failed")
            /\ UNCHANGED <<invitations, okLog>>
     ELSE /\ invitations' = UpdateStatus(req[p].id, NewStatus(req[p].action))
          /\ okLog' = [okLog EXCEPT ![req[p].id] = Append(@, req[p].action)]
          /\ Return(p, req[p].action, 200, "none")
  /\ UNCHANGED <<nextId, members, profiles, events, notifications, pushed,
                 preferences, rate, chat, issued>>
  /\ UNCHANGED clientVars

(* ------------------ DELETE /api/collaborate/invitations --------------- *)

DeleteAdmit_AnyUser(p, u, i) ==
  /\ Free(p)
  /\ IF i = 0
       THEN Return(p, "DELETE", 400, "required")
     ELSE IF invitations[i] = NoInv
       THEN Return(p, "DELETE", 404, "not_found")
     ELSE Goto(p, [kind |-> "DELETE", pc |-> "delete", user |-> u, id |-> i])
  /\ UNCHANGED <<invitations, nextId, members, profiles, events,
                 notifications, pushed, preferences, rate, chat, okLog,
                 issued>>
  /\ UNCHANGED clientVars

\* Lines 457-496: read the invitation, only its inviter may go on.
DeleteAdmit(p, u, i) ==
  /\ Free(p)
  /\ IF i = 0
       THEN Return(p, "DELETE", 400, "required")
     ELSE IF invitations[i] = NoInv
       THEN Return(p, "DELETE", 404, "not_found")
     ELSE IF invitations[i].inviter_id # u
       THEN Return(p, "DELETE", 403, "only_inviter")
     ELSE Goto(p, [kind |-> "DELETE", pc |-> "delete", user |-> u, id |-> i])
  /\ UNCHANGED <<invitations, nextId, members, profiles, events,
                 notifications, pushed, preferences, rate, chat, okLog,
                 issued>>
  /\ UNCHANGED clientVars

\* Lines 498-515: delete the row.
DeleteRow(p, o) ==
  /\ req[p].kind = "DELETE" /\ req[p].pc = "delete"
  /\ IF Refused(o)
       THEN /\ Return(p, "DELETE", 500, "delete_failed")
            /\ invitations' = invitations
     ELSE /\ invitations' = [invitations EXCEPT ![req[p].id] = NoInv]
          /\ Return(p, "DELETE", 200, "none")
  /\ UNCHANGED <<nextId, members, profiles, events, notifications, pushed,
                 preferences, rate, chat, okLog, issued>>
  /\ UNCHANGED clientVars

(* ------------------ POST /api/collaborate/teams/members --------------- *)

\* Placeholder profiles not yet created nor reserved by an add in flight.
NewUsersLeft ==
  MaxNewUsers - (Cardinality(profiles) - Cardinality(Accounts))
    - Cardinality({q \in Procs : req[q].kind = "ADD" /\ req[q].pc = "create_user"})

\* Lines 533-587: the body's checks, the team, the profile by e-mail.  The
\* handler reads no caller identity: caller c makes the request, and is kept
\* as history only.
AddAdmit(p, c, t, e, r) ==
  /\ Free(p)
  /\ LET found == ProfilesByEmail(e) IN
     IF t = NoTeam \/ e = NoEmail
       THEN Return(p, "ADD", 400, "required")
     ELSE IF t \notin AllTeams
       THEN Return(p, "ADD", 404, "team_not_found")
     ELSE IF Single(Cardinality(found))
       THEN Goto(p, [kind |-> "ADD", pc |-> "member_check", teamId |-> t,
                     email |-> e, role |-> r, caller |-> c,
                     userId |-> (CHOOSE x \in found : TRUE).id])
     ELSE /\ NewUsersLeft > 0
          /\ Goto(p, [kind |-> "ADD", pc |-> "create_user", teamId |-> t,
                      email |-> e, role |-> r, caller |-> c, userId |-> 0])
  /\ UNCHANGED <<invitations, nextId, members, profiles, events,
                 notifications, pushed, preferences, rate, chat, okLog,
                 issued>>
  /\ UNCHANGED clientVars

\* Lines 562-583: no profile has the address: insert a placeholder profile.
AddCreateUser(p, o) ==
  /\ req[p].kind = "ADD" /\ req[p].pc = "create_user"
  /\ IF Refused(o)
       THEN /\ Return(p, "ADD", 500, "create_failed")
            /\ profiles' = profiles
     ELSE /\ profiles' = profiles \cup {[id |-> Cardinality(profiles) + 1,
                                         email |-> req[p].email]}
          /\ Goto(p, [req[p] EXCEPT !.pc = "member_check",
                                    !.userId = Cardinality(profiles) + 1])
  /\ UNCHANGED <<invitations, nextId, members, events, notifications,
                 pushed, preferences, rate, chat, okLog, issued>>
  /\ UNCHANGED clientVars

\* Lines 589-599: is the user already a member of the team?
AddMemberCheck(p) ==
  /\ req[p].kind = "ADD" /\ req[p].pc = "member_check"
  /\ IF Single(MemberCount(req[p].teamId, req[p].userId))
       THEN Return(p, "ADD", 400, "already_member")
     ELSE Goto(p, [req[p] EXCEPT !.pc = "insert"])
  /\ UNCHANGED <<invitations, nextId, members, profiles, events,
                 notifications, pushed, preferences, rate, chat, okLog,
                 issued>>
  /\ UNCHANGED clientVars

\* Lines 601-613: insert the team_members row with the role of the body.
AddInsert(p, o) ==
  /\ req[p].kind = "ADD" /\ req[p].pc = "insert"
  /\ MemberCount(req[p].teamId, req[p].userId) < MaxRows
  /\ IF Refused(o)
       THEN /\ Return(p, "ADD", 500, "add_failed")
            /\ members' = members
     ELSE /\ members' = members (+) SetToBag({MemberRow(req[p].teamId,
                                                       req[p].userId,
                                                       req[p].role)})
          /\ Goto(p, [req[p] EXCEPT !.pc = "system_message"])
  /\ UNCHANGED <<invitations, nextId, profiles, events, notifications,
                 pushed, preferences, rate, chat, okLog, issued>>
  /\ UNCHANGED clientVars

\* Lines 615-635: append the system message, return success; a refusal
\* (messageError) is logged only.
AddSystemMessage(p, o) ==
  /\ req[p].kind = "ADD" /\ req[p].pc = "system_message"
  /\ chat' = IF Refused(o) THEN chat
             ELSE [chat EXCEPT ![req[p].teamId] =
                     Append(@, [user_id |-> "system", type |-> "system",
                                joined |-> req[p].userId])]
  /\ Return(p, "ADD", 200, "none")
  /\ UNCHANGED <<invitations, nextId, members, profiles, events,
                 notifications, pushed, preferences, rate, okLog, issued>>
  /\ UNCHANGED clientVars

(* ------------------------------ time --------------------------------- *)

\* The clock passes a pending invitation's expires_at (line 341 is the only
\* place that reads it, and only for a pending row).
PassExpiry(i) ==
  /\ invitations[i] # NoInv
  /\ invitations[i].status = "pending"
  /\ ~invitations[i].overdue
  /\ invitations' = [invitations EXCEPT ![i].overdue = TRUE]
  /\ UNCHANGED <<nextId, members, profiles, events, notifications, pushed,
                 preferences, rate, chat, req, okLog, issued>>
  /\ UNCHANGED clientVars

(* --------------------------- specifications --------------------------- *)

\* The response leaves the handler; the slot is free.  Sending is local to
\* the handler that returned and is taken before any other step, so a state
\* that holds a response is the state at the moment of the return.
Send(p) ==
  /\ req[p].kind = "done"
  /\ req' = [req EXCEPT ![p] = Idle]
  /\ UNCHANGED <<invitations, nextId, members, profiles, events,
                 notifications, pushed, preferences, rate, chat, okLog,
                 issued>>
  /\ UNCHANGED clientVars

Quiet == \A p \in Procs : req[p].kind # "done"

\* The procedures carry out every call.
Reliable == {"ok"}

\* The create handler on the bodies <<user, teamId, inviteeEmail, role>>, the
\* calls of the writing procedures ending in one of the outcomes rpc.
CreateWith(bodies, rpc) ==
  \/ \E p \in Procs, b \in bodies : PostAdmit(p, b[1], b[2], b[3], b[4])
  \/ \E p \in Procs, o \in StoreOutcomes : PostFindUser(p, o)
  \/ \E p \in Procs : PostMemberCheck(p)
  \/ \E p \in Procs : PostPendingCheck(p)
  \/ \E p \in Procs : PostLimitCheck(p)
  \/ \E p \in Procs, o \in StoreOutcomes : PostInsert(p, o)
  \/ \E p \in Procs, o \in rpc : PostLimitUpdate(p, o)
  \/ \E p \in Procs, o \in rpc : PostNotify(p, o)

Create(bodies) == CreateWith(bodies, Reliable)

\* The resolve handler on the bodies <<user, invitationId, action>>, the
\* calls of the writing procedures ending in one of the outcomes rpc.
ResolveWith(bodies, rpc) ==
  \/ \E p \in Procs, b \in bodies : PutAdmit(p, b[1], b[2], b[3])
  \/ \E p \in Procs, o \in StoreOutcomes : PutExpire(p, o)
  \/ \E p \in Procs, o \in StoreOutcomes : PutMemberInsert(p, o)
  \/ \E p \in Procs, o \in rpc : PutNotify(p, o)
  \/ \E p \in Procs, o \in StoreOutcomes : PutUpdate(p, o)
  \/ \E i \in InvIds : PassExpiry(i)

Resolve(bodies) == ResolveWith(bodies, Reliable)

\* The list handler on the requests <<user, type, status>>.
List(queries) ==
  \E p \in Procs, q \in queries, o \in StoreOutcomes :
    GetList(p, q[1], q[2], q[3], o)

\* The delete handler on the requests <<user, invitationId>>.
Delete(bodies) ==
  \/ \E p \in Procs, b \in bodies : DeleteAdmit(p, b[1], b[2])
  \/ \E p \in Procs, o \in StoreOutcomes : DeleteRow(p, o)

\* The member-add handler on the requests <<caller, teamId, email, role>>.
AddMember(bodies) ==
  \/ \E p \in Procs, b \in bodies : AddAdmit(p, b[1], b[2], b[3], b[4])
  \/ \E p \in Procs, o \in StoreOutcomes : AddCreateUser(p, o)
  \/ \E p \in Procs : AddMemberCheck(p)
  \/ \E p \in Procs, o \in StoreOutcomes : AddInsert(p, o)
  \/ \E p \in Procs, o \in StoreOutcomes : AddSystemMessage(p, o)

(* Requests of the lifecycle specification: every account acts on team t1, *)
(* account 2 is the invitee, account 3 is a stranger; one body for each    *)
(* malformed field.                                                        *)
PostBodies ==
  (Accounts \X {"t1"} \X {EmailOf(2)} \X {"editor"})
    \cup {<<1, "t1", EmailOf(2), "owner">>, <<1, "t1", UnknownEmail, "editor">>,
          <<1, "t1", BadEmail, "editor">>, <<1, NoTeam, EmailOf(2), "editor">>}

PutBodies ==
  (Accounts \X InvIds \X ResolveActions)
    \cup {<<2, 0, "accept">>, <<2, 1, "bogus">>}

DeleteBodies == (Accounts \X InvIds) \cup {<<1, 0>>}

Next ==
  \/ \E p \in Procs : Send(p)
  \/ Quiet /\ (Create(PostBodies) \/ Resolve(PutBodies) \/ Delete(DeleteBodies))

Spec == Init /\ [][Next]_vars

(* Requests of the membership specification: invitations of account 2 to   *)
(* team t1, their acceptance, and direct adds of account 2 (by the team's  *)
(* owner as a viewer, by account 3 as an owner) and of an address without  *)
(* account.                                                                 *)
AcceptBodies == {2} \X InvIds \X {"accept"}

AddBodies ==
  {<<1, "t1", EmailOf(2), "viewer">>, <<3, "t1", EmailOf(2), "owner">>,
   <<1, "t1", UnknownEmail, "viewer">>, <<1, "t0", EmailOf(2), "viewer">>,
   <<1, NoTeam, EmailOf(2), "viewer">>}

NextMembers ==
  \/ \E p \in Procs : Send(p)
  \/ Quiet /\ (\/ Create({<<1, "t1", EmailOf(2), "editor">>})
               \/ Resolve(AcceptBodies)
               \/ AddMember(AddBodies))

SpecMembers == Init /\ [][NextMembers]_vars

(* Requests of the rate specification: account 1, who owns every team, has  *)
(* invited to t1 earlier today and deleted that invitation; it now invites *)
(* account 2 to any team.                                                   *)
InitRate ==
  /\ invitations = [i \in InvIds |-> NoInv]
  /\ nextId = 1
  /\ members = SetToBag({MemberRow(t, teamOwner[t], "owner") : t \in AllTeams})
  /\ profiles = {[id |-> u, email |-> EmailOf(u)] : u \in Accounts}
  /\ events = {[type |-> "team_invitation", target |-> 2, team_id |-> "t1"]}
  /\ notifications = events
  /\ pushed = events
  /\ preferences = DefaultPreferences
  /\ rate = [u \in Accounts |-> IF u = 1 THEN {"t1"} ELSE {}]
  /\ chat = [t \in AllTeams |-> <<>>]
  /\ req = [p \in Procs |-> Idle]
  /\ okLog = [i \in InvIds |-> <<>>]
  /\ issued = {<<1, "t1">>}
  /\ InitBell
  /\ InitChat

RateBodies == {1} \X AllTeams \X {EmailOf(2), EmailOf(3)} \X {"editor"}

NextRate ==
  \/ \E p \in Procs : Send(p)
  \/ Quiet /\ Create(RateBodies)

SpecRate == InitRate /\ [][NextRate]_vars

(* Requests of the read specification: account 1 invites account 2 to t1,  *)
(* invitations become overdue, are accepted or rejected, both accounts     *)
(* list.                                                                    *)
ListQueries == {1, 2} \X ListTypes \X {"pending", "all"}

NextRead ==
  \/ \E p \in Procs : Send(p)
  \/ Quiet /\ (\/ Create({<<1, "t1", EmailOf(2), "editor">>})
               \/ Resolve({2} \X InvIds \X {"accept", "reject"})
               \/ List(ListQueries))

SpecRead == Init /\ [][NextRead]_vars

(* Requests of the create specification: account 1, who owns every team,   *)
(* has invited to t1 earlier today; it invites account 2 to any team, and   *)
(* adds account 3 to t1 as an admin and an address without account as a    *)
(* viewer; accounts 3 and 2 invite to t1; one body for each malformed      *)
(* field.  The procedures that write may be refused.                       *)
CreateBodies ==
  ({1} \X AllTeams \X {EmailOf(2)} \X {"editor"})
    \cup {<<3, "t1", EmailOf(2), "editor">>, <<3, "t1", EmailOf(2), "admin">>,
          <<2, "t1", EmailOf(3), "viewer">>, <<1, "t1", EmailOf(2), "owner">>,
          <<1, "t1", UnknownEmail, "editor">>, <<1, "t1", BadEmail, "editor">>,
          <<1, NoTeam, EmailOf(2), "editor">>}

NextCreate ==
  \/ \E p \in Procs : Send(p)
  \/ Quiet /\ (\/ CreateWith(CreateBodies, StoreOutcomes)
               \/ AddMember({<<1, "t1", EmailOf(3), "admin">>,
                             <<1, "t1", UnknownEmail, "viewer">>}))

SpecCreate == InitRate /\ [][NextCreate]_vars

(* Requests of the notification specification: the preferences of accounts *)
(* 1 and 2 are any; account 1 invites account 2 to t1, account 2 accepts   *)
(* or rejects, account 1 cancels.                                           *)
InitNotify ==
  /\ invitations = [i \in InvIds |-> NoInv]
  /\ nextId = 1
  /\ members = SetToBag({MemberRow(t, teamOwner[t], "owner") : t \in AllTeams})
  /\ profiles = {[id |-> u, email |-> EmailOf(u)] : u \in Accounts}
  /\ events = {}
  /\ notifications = {}
  /\ pushed = {}
  /\ preferences \in [Accounts -> [Categories -> BOOLEAN]]
  /\ preferences[3] = DefaultPreferences[3]
  /\ rate = [u \in Accounts |-> {}]
  /\ chat = [t \in AllTeams |-> <<>>]
  /\ req = [p \in Procs |-> Idle]
  /\ okLog = [i \in InvIds |-> <<>>]
  /\ issued = {}
  /\ InitBell
  /\ InitChat

NotifyBodies == {<<2, 1, "accept">>, <<2, 1, "reject">>, <<1, 1, "cancel">>}

NextNotify ==
  \/ \E p \in Procs : Send(p)
  \/ Quiet /\ (\/ Create({<<1, "t1", EmailOf(2), "editor">>})
               \/ Resolve(NotifyBodies))

SpecNotify == InitNotify /\ [][NextNotify]_vars

(* The notification bell: loads, clicks, mark-all, deletes and clears of   *)
(* the listed notifications, any of them failing.                          *)
NextBell ==
  \/ \E o \in StoreOutcomes, l \in Lists : loadNotifications(o, l)
  \/ \E o \in StoreOutcomes, m \in StoredPreferences : loadPreferences(o, m)
  \/ \E n \in bellNotifications : handleNotificationClick(n)
  \/ \E c \in BagToSet(calls), o \in StoreOutcomes : markAsRead(c, o)
  \/ markAllAsReadCall
  \/ \E c \in BagToSet(calls), o \in StoreOutcomes : markAllAsRead(c, o)
  \/ \E n \in bellNotifications : deleteNotificationCall(n)
  \/ \E c \in BagToSet(calls), o \in StoreOutcomes : deleteNotification(c, o)
  \/ clearAllReadCall
  \/ \E c \in BagToSet(calls), o \in StoreOutcomes : clearAllRead(c, o)

SpecBell == Init /\ [][NextBell]_vars

(* The preferences dialog: updates of one key and of two keys, the loads   *)
(* of the preferences, and the loads of the list that call them again.     *)
PreferenceUpdates ==
  [{"team_invitations"} -> BOOLEAN] \cup [{"email_notifications"} -> BOOLEAN]
    \cup [{"new_messages", "role_changes"} -> BOOLEAN]

NextPreferences ==
  \/ \E o \in StoreOutcomes, l \in Lists : loadNotifications(o, l)
  \/ \E o \in StoreOutcomes, m \in StoredPreferences : loadPreferences(o, m)
  \/ \E u \in PreferenceUpdates : updatePreferencesCall(u)
  \/ \E c \in BagToSet(calls), o \in StoreOutcomes : updatePreferences(c, o)

SpecPreferences == Init /\ [][NextPreferences]_vars

\* The TYPING events a socket may hand to the handler.
TypingEvents == [teamId : ChatTeams, userId : Accounts, isTyping : BOOLEAN]

(* The typing indicator: the component's effects on one socket, typing    *)
(* signals of any account for any team, the messages of account 2 and the *)
(* timeouts.                                                              *)
NextTyping ==
  \/ \E t \in ChatTeams : Mount(t)
  \/ Unmount
  \/ \E t \in ChatTeams : TeamChange(t)
  \/ \E a \in Auths : a[2] # 2 /\ AuthChange(a[1], a[2])
  \/ \E d \in TypingEvents : Typing(d)
  \/ \E k \in timers : TimerFires(k)
  \/ \E t \in ChatTeams : PostMessage(t, 2)
  \/ \E s \in Sockets : Deliver(s)

SpecTyping == Init /\ [][NextTyping]_vars

(* The same, with every timeout that stays set firing in the end, as the *)
(* event loop runs the callback of setTimeout 3000 ms after it was set.    *)
SpecTypingLive ==
  /\ Init
  /\ [][NextTyping]_vars
  /\ WF_vars(\E k \in timers : TimerFires(k))

(* The rooms: the component's effects for any team, user and socket, and  *)
(* the typing signals of account 2 with their timeouts.                   *)
NextRooms ==
  \/ \E t \in ChatTeams : Mount(t)
  \/ Unmount
  \/ \E t \in ChatTeams : TeamChange(t)
  \/ \E a \in Auths : AuthChange(a[1], a[2])
  \/ \E t \in ChatTeams : Typing([teamId |-> t, userId |-> 2, isTyping |-> TRUE])
  \/ \E k \in timers : TimerFires(k)

SpecRooms == Init /\ [][NextRooms]_vars

(* The message list: one team shown on one socket, the loads, the posts   *)
(* of the user and of another account, and the member events.             *)
NextMessages ==
  \/ Mount("t1")
  \/ \E r \in BagToSet(loads), o \in StoreOutcomes : GetMessages(r, o)
  \/ \E r \in BagToSet(loads) : loadMessages(r)
  \/ \E s \in Sockets : Deliver(s)
  \/ \E t \in ChatTeams : PostMessage(t, 2)
  \/ MemberJoined("t1")
  \/ handleSendMessageCall
  \/ \E o \in StoreOutcomes : PostOwnMessage(o)
  \/ handleSendMessage

SpecMessages == Init /\ [][NextMessages]_vars

(* ------------------------------ claims -------------------------------- *)

UserIds == {x.id : x \in profiles}

Terminal == {"accepted", "rejected", "cancelled", "expired"}

Exists(i) == invitations[i] # NoInv

\* The resolve actions answered with success for invitation i.
Succeeded(i) == {okLog[i][k] : k \in 1..Len(okLog[i])}

\* The acting user the contract allows for the action.
Authorized(u, a, row) ==
  IF a = "cancel" THEN row.inviter_id = u ELSE row.invitee_id = u

\* Handler p returns in this step.
Returns(p) == req[p].kind # "done" /\ req'[p].kind = "done"

\* C1: in every reachable state, for every (team, invitee) pair at most one
\* invitation has status 'pending'.
C1_OnePendingPerPair ==
  \A t \in AllTeams, u \in UserIds : Cardinality(PendingIds(t, u)) <= 1

\* C2: for one invitation id, at most one resolve request is ever answered
\* with success.
C2_OneResolveSucceeds == \A i \in InvIds : Len(okLog[i]) <= 1

\* C3: in every reachable state there is at most one team_members row per
\* (team, user).
C3_OneRowPerTeamUser ==
  \A t \in AllTeams, u \in UserIds : MemberCount(t, u) <= 1

\* C4: an accept that reads an invitation whose status is accepted, rejected,
\* cancelled or expired, and any accept that follows a successful cancel of
\* the invitation, returns an error and leaves team_members unchanged.
C4_AcceptOfResolvedFails ==
  [][\A p \in Procs, u \in Accounts, i \in InvIds :
       ( /\ \/ Exists(i) /\ invitations[i].status \in Terminal
            \/ "cancel" \in Succeeded(i)
         /\ PutAdmit(p, u, i, "accept") )
       => /\ req'[p].kind = "done"
          /\ req'[p].code >= 400
          /\ members' = members]_vars

\* C4 witness: the invitee's accept of a cancelled invitation has just been
\* answered 400, and the invitee has no membership row.
C4_Witness ==
  \E p \in Procs, i \in InvIds :
    /\ req[p] = Response("accept", 400, "cancelled")
    /\ Exists(i) /\ invitations[i].status = "cancelled"
    /\ "cancel" \in Succeeded(i)
    /\ MemberCount(invitations[i].team_id, invitations[i].invitee_id) = 0

\* C5: a stored status changes only from 'pending', and only to accepted,
\* rejected, cancelled or expired; a status other than 'pending' never
\* changes.
C5_StatusForwardOnly ==
  [][\A i \in InvIds :
       (Exists(i) /\ invitations'[i] # NoInv
          /\ invitations'[i].status # invitations[i].status)
       => /\ invitations[i].status = "pending"
          /\ invitations'[i].status \in Terminal]_vars

\* C6: for every user, the teams for which invitations of that user were
\* persisted today are at most 2.
C6_AtMostTwoTeamsPerDay ==
  \A u \in Accounts :
    Cardinality({t \in AllTeams : <<u, t>> \in issued}) <= MaxTeamsPerDay

\* C7: a resolve request that returns an error has inserted no membership
\* row and emitted no notification (the write of 'expired' apart).
C7_NoPartialSuccess ==
  [][\A p \in Procs :
       (req[p].kind = "PUT" /\ Returns(p) /\ req'[p].code # 200)
       => req[p].fx = {}]_vars

\* C8: when an accept returns success, a membership row of the invitation's
\* team, invitee and role exists, the invitation's status is 'accepted' and
\* a member_added notification for the inviter has been emitted.
C8_AcceptSuccess ==
  [][\A p \in Procs :
       ( /\ req[p].kind = "PUT" /\ req[p].action = "accept"
         /\ Returns(p) /\ req'[p].code = 200 )
       => LET inv == req[p].invitation IN
          /\ BagIn(MemberRow(inv.team_id, inv.invitee_id, inv.role), members')
          /\ invitations'[req[p].id] # NoInv
          /\ invitations'[req[p].id].status = "accepted"
          /\ [type |-> "member_added", target |-> inv.inviter_id,
              team_id |-> inv.team_id] \in events']_vars

C10_ExpiredOnResolve ==
  [][\A p \in Procs :
       /\ \A u \in Accounts, i \in InvIds, a \in ResolveActions :
            ( /\ Exists(i) /\ Authorized(u, a, invitations[i])
              /\ invitations[i].status = "pending" /\ IsOverdue(invitations[i])
              /\ PutAdmit(p, u, i, a) )
            => /\ req'[p].kind = "PUT" /\ req'[p].pc = "expire"
               /\ UNCHANGED <<invitations, members, events>>
       /\ (req[p].kind = "PUT" /\ req[p].pc = "expire" /\ Returns(p))
            => /\ req'[p].code >= 400
               /\ invitations'[req[p].id] # NoInv
               /\ invitations'[req[p].id].status = "expired"
               /\ members' = members /\ events' = events
               /\ req[p].fx = {}]_vars

\* C11: a listing with status filter 'pending' returns no invitation whose
\* expiry time has passed, and create's duplicate-pending check rejects only
\* because of a pending invitation of the pair that is not overdue.
C11_OverdueIsExpiredOnRead ==
  [][\A p \in Procs :
       /\ ( /\ Returns(p) /\ req'[p].op = "GET" /\ req'[p].code = 200
            /\ req'[p].status = "pending" )
          => \A r \in req'[p].invitations : ~IsOverdue(invitations[r.id])
       /\ ( /\ req[p].kind = "POST" /\ req[p].pc = "pending_check"
            /\ Returns(p) /\ req'[p].err = "duplicate_pending" )
          => \E i \in PendingIds(req[p].teamId, req[p].invitee) :
               ~IsOverdue(invitations[i])]_vars

\* The membership rows of team t with role 'owner'.
OwnerRows(t) ==
  LET rows == {m \in BagToSet(members) : m.team_id = t /\ m.role = "owner"}
  IN  BagCardinality([m \in rows |-> members[m]])

\* C12: in every reachable state each team has exactly one membership row
\* with role 'owner'.
C12_OneOwnerPerTeam == \A t \in AllTeams : OwnerRows(t) = 1

\* C13: a step that inserts a membership row is the accept of a pending
\* invitation by that invitation's invitee, or the insert of a member-add
\* request made by the owner of the team.
C13_MembershipOrigin ==
  [][members' # members =>
       \E p \in Procs :
         /\ req'[p] # req[p]
         /\ \/ /\ req[p].kind = "PUT" /\ req[p].pc = "member_insert"
               /\ req[p].action = "accept"
               /\ req[p].user = req[p].invitation.invitee_id
               /\ Exists(req[p].id) /\ invitations[req[p].id].status = "pending"
            \/ /\ req[p].kind = "ADD" /\ req[p].pc = "insert"
               /\ req[p].caller = teamOwner[req[p].teamId]]_vars

\* C14: a create request whose invitee has a membership in the team when the
\* handler looks for one is answered with the already-member error and
\* persists no invitation.
C14_InviteeAlreadyMember ==
  [][\A p \in Procs :
       ( /\ req[p].kind = "POST" /\ req[p].pc = "member_check"
         /\ req'[p] # req[p]
         /\ MemberCount(req[p].teamId, req[p].invitee) >= 1 )
       => /\ req'[p] = Response("POST", 400, "already_member")
          /\ invitations' = invitations]_vars

\* C16: no endpoint creates a user account, and a request that names an
\* address no account has returns an error in the step that finds none,
\* with invitations, memberships and notifications unchanged.
C16_RecipientMustExist ==
  [][/\ profiles' = profiles
     /\ \A p \in Procs :
          /\ ( /\ req[p].kind = "POST" /\ req[p].pc = "find_user"
               /\ req'[p] # req[p]
               /\ ProfilesByEmail(req[p].inviteeEmail) = {} )
             => /\ req'[p].kind = "done" /\ req'[p].code >= 400
                /\ UNCHANGED <<invitations, members, events>>
          /\ (req[p] = Idle /\ req'[p].kind = "ADD")
             => ProfilesByEmail(req'[p].email) # {}]_vars

\* C19: when an accept returns success, the chat of the invitation's team
\* holds a system message (sender 'system', type 'system') for the invitee
\* who joined.
C19_SystemMessageOnAccept ==
  [][\A p \in Procs :
       ( /\ req[p].kind = "PUT" /\ req[p].action = "accept"
         /\ Returns(p) /\ req'[p].code = 200 )
       => LET inv == req[p].invitation
              log == chat'[inv.team_id]
          IN  \E k \in 1..Len(log) :
                /\ log[k].user_id = "system" /\ log[k].type = "system"
                /\ log[k].joined = inv.invitee_id]_vars

\* C15: a create request whose role is not assignable, or whose acting user
\* can_assign_role refuses, returns an error in the admitting step with
\* invitations, rate state and notifications unchanged; a create handler
\* inserts only for a role and user that pass both; every stored invitation
\* has a role in {viewer, editor, admin}.
C15_CreateNeedsAuthority ==
  [][/\ \A p \in Procs :
          /\ \A b \in CreateBodies :
               ( /\ req[p] = Idle
                 /\ ~(b[4] \in AssignableRoles /\ can_assign_role(b[2], b[1], b[4]))
                 /\ PostAdmit(p, b[1], b[2], b[3], b[4]) )
               => /\ req'[p].kind = "done" /\ req'[p].code >= 400
                  /\ UNCHANGED <<invitations, rate, events>>
          /\ ( /\ req[p].kind = "POST" /\ req[p].pc = "insert"
               /\ req'[p] # req[p] /\ invitations' # invitations )
             => /\ req[p].role \in AssignableRoles
                /\ can_assign_role(req[p].teamId, req[p].user, req[p].role)
     /\ \A i \in InvIds :
          invitations'[i] # NoInv => invitations'[i].role \in AssignableRoles]_vars

\* C15 witness: a create has just been refused by can_assign_role while an
\* invitation created by account 3, a member with role admin, is stored.
C15_Witness ==
  /\ \E p \in Procs : req[p] = Response("POST", 403, "cannot_assign")
  /\ \E i \in InvIds : Exists(i) /\ invitations[i].inviter_id = 3

\* C17: a create that returns success has inserted one new invitation with
\* status 'pending', the team is in the inviter's rate state and a
\* team_invitation notification for the invitee has been emitted; a create
\* that returns an error has inserted no invitation and changed neither the
\* rate state nor the notifications.
C17_CreateSuccess ==
  [][\A p \in Procs :
       /\ (req[p].kind = "POST" /\ Returns(p) /\ req'[p].code = 200)
          => /\ req[p].id # 0
             /\ req[p].teamId \in rate'[req[p].user]
             /\ [type |-> "team_invitation", target |-> req[p].invitee,
                 team_id |-> req[p].teamId] \in events'
       /\ ( /\ req[p].kind = "POST" /\ req[p].pc = "insert"
            /\ req'[p].kind = "POST" /\ req'[p].pc = "limit_update" )
          => \E i \in InvIds :
               /\ req'[p].id = i
               /\ invitations[i] = NoInv
               /\ invitations'[i] = NewInvitation(req[p])
               /\ invitations'[i].status = "pending"
               /\ \A j \in InvIds \ {i} : invitations'[j] = invitations[j]
       /\ (req[p].kind = "POST" /\ Returns(p) /\ req'[p].code # 200)
          => /\ req[p].id = 0
             /\ rate' = rate /\ events' = events]_vars

\* The delete contract.  A delete of an existing invitation by its inviter
\* goes on to the store's delete, whatever the status; by any other user
\* it is answered 403 and the invitation stays as it is.  A row is removed
\* only by its inviter's delete.  When the handler returns from the store's
\* delete the row is gone and the response is success (always), or: the row
\* is gone on success, and otherwise the response is 500 and the
\* invitations are unchanged (not always).
DeleteContract(always) ==
  /\ \A p \in Procs :
       /\ \A u \in Accounts, i \in InvIds :
            (req[p] = Idle /\ Exists(i) /\ DeleteAdmit(p, u, i))
            => IF invitations[i].inviter_id = u
                 THEN req'[p].kind = "DELETE" /\ req'[p].id = i
               ELSE /\ req'[p] = Response("DELETE", 403, "only_inviter")
                    /\ invitations' = invitations
       /\ (req[p].kind = "DELETE" /\ Returns(p))
          => IF always \/ req'[p].code = 200
               THEN req'[p].code = 200 /\ invitations'[req[p].id] = NoInv
             ELSE req'[p].code = 500 /\ invitations' = invitations
  /\ \A i \in InvIds :
       (Exists(i) /\ invitations'[i] = NoInv)
       => \E q \in Procs :
            /\ req[q].kind = "DELETE" /\ Returns(q)
            /\ req[q].id = i /\ req[q].user = invitations[i].inviter_id

C28_NotifiedOnlyWhenPersisted ==
  [][\A p \in Procs :
       (req[p].kind = "PUT" /\ Returns(p) /\ "event" \in req[p].fx)
       => \/ invitations'[req[p].id] = NoInv
          \/ invitations'[req[p].id].status # "pending"]_vars

\* C26: the preferences start with every key enabled except
\* email_notifications; when updatePreferences(updates) returns from a
\* successful call every key of updates has the given value and every other
\* key is unchanged, and from a failed call no key has changed.
C26_PreferencesMerge ==
  /\ bellPreferences =
       [team_invitations |-> TRUE, member_added |-> TRUE, new_messages |-> TRUE,
        message_mentions |-> TRUE, document_shared |-> TRUE,
        role_changes |-> TRUE, email_notifications |-> FALSE,
        push_notifications |-> TRUE]
  /\ [][\A c \in Awaited("updatePreferences"), o \in StoreOutcomes :
          updatePreferences(c, o)
          => IF Refused(o)
               THEN bellPreferences' = bellPreferences
             ELSE /\ DOMAIN bellPreferences' = PrefKeys
                  /\ \A k \in DOMAIN c.updates :
                       bellPreferences'[k] = c.updates[k]
                  /\ \A k \in PrefKeys \ DOMAIN c.updates :
                       bellPreferences'[k] = bellPreferences[k]]_vars

\* C26 witness: two updates have returned from successful calls:
\* team_invitations is disabled, email_notifications enabled, every other
\* key as at the start.
C26_Witness ==
  /\ bellPreferences =
       [team_invitations |-> FALSE, member_added |-> TRUE, new_messages |-> TRUE,
        message_mentions |-> TRUE, document_shared |-> TRUE,
        role_changes |-> TRUE, email_notifications |-> TRUE,
        push_notifications |-> TRUE]
  /\ ~isUpdatingPreferences

\* C27: after every step unreadCount is not negative and equals the number
\* of listed notifications with is_read = false; the return of markAsRead
\* for a notification that is listed as read changes neither the list nor
\* the counter; the return of a successful clearAllRead leaves exactly the
\* unread notifications.
C27_UnreadCountConsistent ==
  [][/\ unreadCount' >= 0
     /\ unreadCount' = Cardinality(Unread(bellNotifications'))
     /\ \A c \in Awaited("markAsRead"), o \in StoreOutcomes :
          ( /\ c.id \notin Linked
            /\ \E n \in bellNotifications : n.id = c.id /\ n.is_read
            /\ markAsRead(c, o) )
          => UNCHANGED <<bellNotifications, unreadCount>>
     /\ \A c \in Awaited("clearAllRead") :
          (clearAllRead(c, "ok") /\ bellNotifications' # bellNotifications)
          => bellNotifications' = Unread(bellNotifications)]_vars

(* C22: each sender has at most one live typing timeout; the timeout that  *)
(* sets a sender's indicator to false is the one started by that sender's  *)
(* most recent isTyping=true signal; a typing signal of one sender leaves  *)
(* the timeouts of the other senders as they are.                          *)
C22_OneTimerPerSender ==
  /\ [](\A x \in Accounts : Cardinality({k \in timers : k.userId = x}) <= 1)
  /\ [][\A k \in timers : TimerFires(k) => k.id = lastTrue[k.userId]]_vars
  /\ [][\A d \in TypingEvents :
          Typing(d) => \A k \in timers : k.userId # d.userId => k \in timers']_vars

\* Account 2 signalled twice after account 3 did, both timeouts are live.
C22_Witness ==
  /\ [id |-> 3, userId |-> 2] \in timers
  /\ [id |-> 1, userId |-> 3] \in timers
  /\ isTyping[2] /\ isTyping[3]

C30_JoinLeavePaired ==
  /\ Cardinality(rooms) <= 1
  /\ ~mounted => rooms = {} /\ listeners = {}
  /\ \A l \in listeners : l = [socket |-> socket, team |-> team, user |-> user]
  /\ \A r \in rooms : r = <<socket, team>>
  /\ emitted # <<>> =>
       LET last == emitted[Len(emitted)]
       IN  /\ (last.event = "JOIN_TEAM") = (rooms # {})
           /\ Len(emitted) = 2 =>
                /\ emitted[1].event # last.event
                /\ last.event = "LEAVE_TEAM" =>
                     /\ last.teamId = emitted[1].teamId
                     /\ last.socket = emitted[1].socket

\* The effect ran again for another team and another socket.
C30_Witness ==
  /\ mounted /\ team = "t2" /\ socket = 2
  /\ emitted = <<[event |-> "LEAVE_TEAM", teamId |-> "t1", userId |-> Me,
                  socket |-> 1],
                 [event |-> "JOIN_TEAM", teamId |-> "t2", userId |-> Me,
                  socket |-> 2]>>
  /\ rooms = {<<2, "t2">>}

(* C21: once the indicator of another account is true, it becomes false    *)
(* again, whatever happens in between: with no further signal of that      *)
(* account, through the timeout alone.                                     *)
C21_TypingExpires ==
  \A x \in Accounts \ {Me} : isTyping[x] ~> ~isTyping[x]

(* C23 as stated: neither step of handleSendMessage changes the message    *)
(* list, and a message of the user enters the list only in the step that   *)
(* handles its NEW_MESSAGE event.                                          *)
C23_OnlyByEcho ==
  [][LET Own(list) == {list[k].id : k \in {j \in 1..Len(list) :
                                             list[j].senderId = Me}}
     IN  /\ (handleSendMessageCall \/ handleSendMessage)
              => messages' = messages
         /\ \A i \in Own(messages') \ Own(messages) :
              \E s \in Sockets : /\ Deliver(s)
                                 /\ Head(inbox[s]).event = "NEW_MESSAGE"
                                 /\ Head(inbox[s]).id = i]_vars

(* C23, amended: neither step of handleSendMessage changes the message     *)
(* list, and a message of the user enters the list only in the step that   *)
(* handles its NEW_MESSAGE event or in a return of loadMessages.           *)
C23_ByEchoOrLoad ==
  [][LET Own(list) == {list[k].id : k \in {j \in 1..Len(list) :
                                             list[j].senderId = Me}}
     IN  /\ (handleSendMessageCall \/ handleSendMessage)
              => messages' = messages
         /\ \A i \in Own(messages') \ Own(messages) :
              \/ \E s \in Sockets : /\ Deliver(s)
                                    /\ Head(inbox[s]).event = "NEW_MESSAGE"
                                    /\ Head(inbox[s]).id = i
              \/ \E r \in BagToSet(loads) : loadMessages(r)]_vars

\* A send has returned and the user's message is in the list.
C23_Witness ==
  /\ post = NoPost /\ ~isSending
  /\ \E k \in 1..Len(messages) : messages[k].senderId = Me

(* C29: no message id is ever twice in the list, and a return of          *)
(* loadMessages keeps every message that was in the list.                  *)
C29_ExactlyOnce ==
  /\ [](\A j, k \in 1..Len(messages) :
          j # k => messages[j].id # messages[k].id)
  /\ [][\A r \in BagToSet(loads) :
          loadMessages(r)
          => \A k \in 1..Len(messages) :
               \E j \in 1..Len(messages') : messages'[j].id = messages[k].id]_vars

(* C25: the messages of the list are in the order in which they were       *)
(* persisted (ids are given in that order): no message stands before one   *)
(* persisted earlier.                                                      *)
C25_PersistenceOrder ==
  \A j, k \in 1..Len(messages) : j < k => messages[j].id <= messages[k].id

====
